---- MODULE Spec2Model ----
(***************************************************************************)
(* Model of helper_functions.py.                                           *)
(*                                                                         *)
(* Part I  (specification Spec): the input pipeline that                   *)
(*   prepare_dataset_simple builds,                                        *)
(*     from_tensor_slices -> map(process_image, AUTOTUNE) -> batch         *)
(*                        -> prefetch(AUTOTUNE),                           *)
(*   and the traversals the display_* helpers make over it.                *)
(*                                                                         *)
(* Part II (specification SpecCurve): the metric computations of           *)
(*   calculate_and_plot_roc_curve and                                      *)
(*   calculate_and_plot_precision_recall_curve.                            *)
(***************************************************************************)
EXTENDS Integers, Sequences, FiniteSets, TLC

(***************************************************************************)
(* Bounds of the model.                                                    *)
(***************************************************************************)
MaxRecords == 4
MaxBatch == 2
MaxWorkers == 2
MaxDepth == 2
MaxTraversals == 2

LabelValues == {0, 1}

VARIABLES
  \* ---- Part I: the dataset and its current iterator
  dataframe,     \* rows <<[label, ok]>>: the label column and whether the path decodes
  batch_size,    \* the batch_size argument
  built,         \* prepare_dataset_simple has returned the dataset
  trav,          \* number of traversals (iterators) started so far
  status,        \* of the current traversal: none / running / exhausted / error
  parallelism,   \* map's num_parallel_calls as tuned for this iterator
  depth,         \* prefetch's buffer limit as tuned for this iterator
  nextDispatch,  \* rows 1..nextDispatch have been handed to process_image
  slot,          \* per row: state of its process_image invocation
  taken,         \* rows 1..taken have been pulled out of map by batch
  partial,       \* the batch under construction
  buffer,        \* the prefetch buffer
  ended,         \* batch has reported end of sequence to prefetch
  yielded,       \* batches handed to the consumer in this traversal
  loads,         \* process_image invocations in this traversal
  finished,      \* rows whose process_image has returned in this traversal
  history,       \* what each earlier traversal yielded and how it ended
  \* ---- Part II: one metric call
  call,          \* the arguments of the call
  result         \* what the call produced

pipeVars == <<dataframe, batch_size, built, trav, status, parallelism, depth,
              nextDispatch, slot, taken, partial, buffer, ended, yielded,
              loads, finished, history>>
curveVars == <<call, result>>
vars == <<pipeVars, curveVars>>

(***************************************************************************)
(* Part I.  The input pipeline.                                            *)
(***************************************************************************)
N == Len(dataframe)
Rows == 1..N

EmptySlot == [st |-> "empty", gen |-> 0]

\* The batch op emits the short batch left over at the end of the input
\* (batch's drop_remainder is left at its default, False).
RemainderDropped(p) == <<>>
Remainder(p) == p

\* map is deterministic (the default): its k-th output is the k-th input row.
NextRowSloppy == {i \in Rows : i > taken /\ slot[i].st = "done"}
NextRow == {i \in Rows : i = taken + 1}

\* An output of map can be pulled only once its process_image call returned.
ReadyEarly(i) == slot[i].st \in {"loading", "done"}
Ready(i) == slot[i].st = "done"

\* A failed element is passed down the pipeline as an error, in its place.
OnErrorIgnore(buf, i) == buf
OnError(buf, i) == Append(buf, [kind |-> "error", row |-> i, items |-> <<>>])

\* What a new iterator starts with: no invocation results.
SlotsKept == slot
FreshSlots == [i \in Rows |-> EmptySlot]

Item(i) == [row |-> i, label |-> dataframe[i].label, gen |-> slot[i].gen]
Batch(items) == [kind |-> "batch", row |-> 0, items |-> items]

\* Part II is idle while the pipeline runs.
NoCurve == [fps |-> <<>>, tps |-> <<>>, neg |-> 0, pos |-> 0]
NoPR == [prec |-> <<>>, rec |-> <<>>, thr |-> <<>>]
NoCall == [y_true |-> <<>>, probs |-> <<>>, n_classes |-> 0]
NoResult == [fn |-> "none", lib |-> "none", error |-> "none", computed |-> <<>>,
             micro |-> NoCurve, macro |-> NoCurve,
             aucMicro |-> [num |-> 0, den |-> 0],
             aucMacro |-> [num |-> 0, den |-> 0],
             perClass |-> <<>>, prMacro |-> NoPR,
             apMacro |-> [num |-> 0, den |-> 0]]
IdleCurve == call = NoCall /\ result = NoResult

Init ==
  /\ \E n \in 0..MaxRecords :
       \E labels \in [1..n -> LabelValues] :
         \E bad \in {{}} \cup {{i} : i \in 1..n} :
           dataframe = [i \in 1..n |-> [label |-> labels[i], ok |-> i \notin bad]]
  /\ batch_size \in 1..MaxBatch
  /\ built = FALSE
  /\ trav = 0
  /\ status = "none"
  /\ parallelism = 1
  /\ depth = 1
  /\ nextDispatch = 0
  /\ slot = [i \in Rows |-> EmptySlot]
  /\ taken = 0
  /\ partial = <<>>
  /\ buffer = <<>>
  /\ ended = FALSE
  /\ yielded = <<>>
  /\ loads = 0
  /\ finished = {}
  /\ history = <<>>
  /\ IdleCurve

\* prepare_dataset_simple: chains the four stages and returns; nothing runs.
Build ==
  /\ ~built
  /\ built' = TRUE
  /\ UNCHANGED <<dataframe, batch_size, trav, status, parallelism, depth,
                 nextDispatch, slot, taken, partial, buffer, ended, yielded,
                 loads, finished, history, curveVars>>

\* A for-loop over the dataset starts: a new iterator is made and pulled from,
\* whatever state the previous traversal was left in (run to its end, failed,
\* or left by break).
StartTraversal ==
  /\ built
  /\ trav < MaxTraversals
  /\ trav' = trav + 1
  /\ history' = IF trav = 0 THEN history
                ELSE Append(history, [out |-> yielded, status |-> status])
  /\ status' = "running"
  /\ parallelism' \in 1..MaxWorkers
  /\ depth' = 1
  /\ nextDispatch' = 0
  /\ slot' = FreshSlots
  /\ taken' = 0
  /\ partial' = <<>>
  /\ buffer' = <<>>
  /\ ended' = FALSE
  /\ yielded' = <<>>
  /\ loads' = 0
  /\ finished' = {}
  /\ UNCHANGED <<dataframe, batch_size, built, curveVars>>

\* map: a worker is given the next row and calls process_image on it.
Dispatch ==
  /\ status = "running"
  /\ nextDispatch < N
  /\ nextDispatch - taken < parallelism
  /\ nextDispatch' = nextDispatch + 1
  /\ slot' = [slot EXCEPT ![nextDispatch + 1] = [st |-> "loading", gen |-> trav]]
  /\ loads' = loads + 1
  /\ UNCHANGED <<dataframe, batch_size, built, trav, status, parallelism, depth,
                 taken, partial, buffer, ended, yielded, finished, history,
                 curveVars>>

\* process_image returns (a tensor, or a decode failure) on some worker.
Complete(i) ==
  /\ status = "running"
  /\ slot[i].st = "loading"
  /\ slot' = [slot EXCEPT ![i].st = "done"]
  /\ finished' = finished \cup {i}
  /\ UNCHANGED <<dataframe, batch_size, built, trav, status, parallelism, depth,
                 nextDispatch, taken, partial, buffer, ended, yielded, loads,
                 history, curveVars>>

\* prefetch's thread, inside batch: pull the next output of map.
TakeItem ==
  /\ status = "running"
  /\ Len(buffer) < depth
  /\ \E i \in NextRow :
       /\ Ready(i)
       /\ taken' = IF i = taken + 1 THEN i ELSE taken
       /\ slot' = [slot EXCEPT ![i] = EmptySlot]
       /\ IF dataframe[i].ok
            THEN LET p == Append(partial, Item(i)) IN
                 IF Len(p) = batch_size
                   THEN partial' = <<>> /\ buffer' = Append(buffer, Batch(p))
                   ELSE partial' = p /\ buffer' = buffer
            ELSE partial' = <<>> /\ buffer' = OnError(buffer, i)
  /\ UNCHANGED <<dataframe, batch_size, built, trav, status, parallelism, depth,
                 nextDispatch, ended, yielded, loads, finished, history,
                 curveVars>>

\* prefetch's thread, inside batch: the input is used up.
EndOfInput ==
  /\ status = "running"
  /\ Len(buffer) < depth
  /\ taken = N
  /\ ~ended
  /\ IF Remainder(partial) # <<>>
       THEN buffer' = Append(buffer, Batch(Remainder(partial))) /\ ended' = ended
       ELSE buffer' = buffer /\ ended' = TRUE
  /\ partial' = <<>>
  /\ UNCHANGED <<dataframe, batch_size, built, trav, status, parallelism, depth,
                 nextDispatch, slot, taken, yielded, loads, finished, history,
                 curveVars>>

\* prefetch(AUTOTUNE): the buffer limit is doubled when the consumer drains it.
Autotune ==
  /\ status = "running"
  /\ buffer = <<>>
  /\ depth * 2 <= MaxDepth
  /\ depth' = depth * 2
  /\ UNCHANGED <<dataframe, batch_size, built, trav, status, parallelism,
                 nextDispatch, slot, taken, partial, buffer, ended, yielded,
                 loads, finished, history, curveVars>>

\* The consumer's pull: blocks until the buffer holds an element.
Consume ==
  /\ status = "running"
  /\ buffer # <<>>
  /\ buffer' = Tail(buffer)
  /\ IF Head(buffer).kind = "batch"
       THEN yielded' = Append(yielded, Head(buffer).items) /\ status' = status
       ELSE yielded' = yielded /\ status' = "error"
  /\ UNCHANGED <<dataframe, batch_size, built, trav, parallelism, depth,
                 nextDispatch, slot, taken, partial, ended, loads, finished,
                 history, curveVars>>

\* The consumer's pull finds the end of the sequence.
Finish ==
  /\ status = "running"
  /\ buffer = <<>>
  /\ ended
  /\ status' = "exhausted"
  /\ UNCHANGED <<dataframe, batch_size, built, trav, parallelism, depth,
                 nextDispatch, slot, taken, partial, buffer, ended, yielded,
                 loads, finished, history, curveVars>>

Next ==
  \/ Build
  \/ StartTraversal
  \/ Dispatch
  \/ \E i \in Rows : Complete(i)
  \/ TakeItem
  \/ EndOfInput
  \/ Autotune
  \/ Consume
  \/ Finish

Spec == Init /\ [][Next]_vars

(***************************************************************************)
(* Properties of the pipeline.                                             *)
(***************************************************************************)
RECURSIVE Flatten(_)
Flatten(bs) == IF bs = <<>> THEN <<>> ELSE Head(bs) \o Flatten(Tail(bs))

RowsOf(items) == [k \in 1..Len(items) |-> items[k].row]
LabelsOf(items) == [k \in 1..Len(items) |-> items[k].label]
LabelColumn == [i \in 1..N |-> dataframe[i].label]
BatchLabels(bs) == [k \in 1..Len(bs) |-> LabelsOf(bs[k])]

CeilDiv(n, b) == (n + b - 1) \div b
LastSize(n, b) == IF n % b = 0 THEN b ELSE n % b

BadRows == {i \in Rows : ~dataframe[i].ok}

\* C1: a full traversal yields ceil(n/b) batches, all of b items except the
\* last, which has n mod b items (b when b divides n), and the labels of the
\* batches, concatenated in yield order, are the label column.
C1_BatchCountSizesAndLabels ==
  status = "exhausted" =>
    /\ Len(yielded) = CeilDiv(N, batch_size)
    /\ \A k \in 1..Len(yielded) :
         Len(yielded[k]) = IF k < Len(yielded) THEN batch_size
                           ELSE LastSize(N, batch_size)
    /\ LabelsOf(Flatten(yielded)) = LabelColumn

C1_Witness ==
  /\ status = "exhausted"
  /\ N % batch_size # 0
  /\ Len(yielded) >= 2

\* C2: with no failing path, whatever the number of workers and the order in
\* which their loads complete, the k-th item yielded is the k-th input row
\* (with its label), and the j-th batch holds the rows a sequential worker
\* would put in it.
C2_OrderIndependentOfCompletion ==
  BadRows = {} =>
    /\ \A k \in 1..Len(Flatten(yielded)) :
         /\ Flatten(yielded)[k].row = k
         /\ Flatten(yielded)[k].label = dataframe[k].label
    /\ \A j \in 1..Len(yielded) :
         RowsOf(yielded[j]) =
           [k \in 1..Len(yielded[j]) |-> (j - 1) * batch_size + k]
    /\ status = "exhausted" => Len(Flatten(yielded)) = N

C2_Witness ==
  /\ BadRows = {}
  /\ parallelism >= 2
  /\ Len(yielded) >= 1
  /\ \E i, j \in Rows : i < j /\ slot[i].st = "loading" /\ slot[j].st = "done"

\* C3: with exactly one failing path, in row k: building the dataset reads
\* nothing and raises nothing; the batches before the one holding row k are
\* yielded in order; the error reaches the consumer exactly at the pull for
\* the batch holding row k (not earlier, however far ahead the workers ran);
\* and that batch is never yielded nor the traversal ended without the error.
C3_ErrorAtBadBatch ==
  Cardinality(BadRows) = 1 =>
    LET k == CHOOSE i \in BadRows : TRUE
        before == (k - 1) \div batch_size
    IN /\ (trav = 0 => status = "none" /\ loads = 0)
       /\ Len(yielded) <= before
       /\ \A j \in 1..Len(yielded) :
            RowsOf(yielded[j]) = [i \in 1..batch_size |-> (j - 1) * batch_size + i]
       /\ status # "exhausted"
       /\ (status = "error" => Len(yielded) = before)

C3_Witness ==
  /\ Cardinality(BadRows) = 1
  /\ status = "error"
  /\ Len(yielded) >= 1

\* C4: every traversal that runs to its end yields the same batches of labels
\* as every other one, a traversal in progress has yielded a prefix of them,
\* each full traversal has called process_image once per record, and no
\* tensor handed out in a traversal was decoded in an earlier one.
Exhausted(h) == history[h].status = "exhausted"

C4_Restartable ==
  /\ \A h \in 1..Len(history) :
       Exhausted(h) =>
         /\ Len(yielded) <= Len(history[h].out)
         /\ BatchLabels(yielded) =
              SubSeq(BatchLabels(history[h].out), 1, Len(yielded))
         /\ (status = "exhausted" => Len(yielded) = Len(history[h].out))
  /\ (status = "exhausted" => loads = N)
  /\ loads <= N
  /\ \A k \in 1..Len(Flatten(yielded)) : Flatten(yielded)[k].gen = trav

C4_Witness ==
  /\ trav = 2
  /\ status = "exhausted"
  /\ Exhausted(1)
  /\ Len(yielded) >= 2

\* C10: every item of a batch handed to the consumer (or waiting in the
\* prefetch buffer) belongs to a process_image call that has returned, and the
\* prefetch buffer never holds more batches than its current limit.
C10_BlockingAndBoundedLookahead ==
  /\ \A k \in 1..Len(Flatten(yielded)) : Flatten(yielded)[k].row \in finished
  /\ \A e \in 1..Len(buffer) :
       \A k \in 1..Len(buffer[e].items) : buffer[e].items[k].row \in finished
  /\ Len(buffer) <= depth

C10_Witness ==
  /\ depth >= 2
  /\ Len(buffer) = depth
  /\ Len(yielded) >= 1
  /\ \E i \in Rows : slot[i].st = "loading"

(***************************************************************************)
(* Part II.  The metric computations.                                      *)
(*                                                                         *)
(* Scores are integers in units of 1/ScoreUnit; a rate or an area is a     *)
(* fraction [num, den]; NaN is the value numpy gives 0/0.                  *)
(***************************************************************************)
MaxSamples == 4
MaxClasses == 3
MaxCells == 9
ScoreUnit == 2

Frac(a, b) == [num |-> a, den |-> b]
NaN == [num |-> 0, den |-> 0]
IsNaN(x) == x.den = 0
\* a/b <= c/d and a/b = c/d for fractions with positive denominators
FracLeq(x, y) == x.num * y.den <= y.num * x.den
FracEq(x, y) == x.num * y.den = y.num * x.den

RECURSIVE SumSeq(_)
SumSeq(q) == IF q = <<>> THEN 0 ELSE Head(q) + SumSeq(Tail(q))

RECURSIVE ProdSeq(_)
ProdSeq(q) == IF q = <<>> THEN 1 ELSE Head(q) * ProdSeq(Tail(q))

Reverse(q) == [k \in 1..Len(q) |-> q[Len(q) + 1 - k]]
Min2(a, b) == IF a <= b THEN a ELSE b

NRows(M) == Len(M)
NCols(M) == Len(M[1])
Column(M, c) == [i \in 1..Len(M) |-> M[i][c]]

\* numpy's ravel: row-major flattening
RECURSIVE Ravel(_)
Ravel(M) == IF M = <<>> THEN <<>> ELSE Head(M) \o Ravel(Tail(M))

Range(q) == {q[i] : i \in 1..Len(q)}

\* sklearn's type_of_target on an integer label vector
TypeOfTarget(y) == IF Cardinality(Range(y)) > 2 THEN "multiclass" ELSE "binary"

\* label_binarize(y, classes=range(C)): one indicator column per class, except
\* that a binary target gives a single column (the indicator of the last
\* class), and a binary target with one class gives a single column of zeros.
OneHot(y, C) == [i \in 1..Len(y) |-> [c \in 1..C |-> IF y[i] = c - 1 THEN 1 ELSE 0]]

label_binarize(y, C) ==
  IF TypeOfTarget(y) = "binary" /\ C = 1
    THEN [i \in 1..Len(y) |-> <<0>>]
    ELSE IF TypeOfTarget(y) = "binary" /\ C = 2
      THEN [i \in 1..Len(y) |-> <<OneHot(y, C)[i][C]>>]
      ELSE OneHot(y, C)

\* np.argsort(s, kind="mergesort")[::-1]: indices by descending score
RECURSIVE InsertAsc(_, _, _)
InsertAsc(order, i, s) ==
  IF order = <<>> THEN <<i>>
  ELSE IF s[Head(order)] <= s[i]
    THEN <<Head(order)>> \o InsertAsc(Tail(order), i, s)
    ELSE <<i>> \o order

RECURSIVE ArgsortUpTo(_, _)
ArgsortUpTo(s, n) ==
  IF n = 0 THEN <<>> ELSE InsertAsc(ArgsortUpTo(s, n - 1), n, s)

DescOrder(s) == Reverse(ArgsortUpTo(s, Len(s)))

\* _binary_clf_curve: true and false positive counts at each distinct score,
\* from the highest score down.
\*   idx: the last position of each run of equal scores (threshold_idxs)
\*   tps: cumsum of the sorted labels at idx;  fps: idx - tps
ClfRecord(idx, tps, ss) ==
  [tps |-> tps,
   fps |-> [j \in 1..Len(idx) |-> idx[j] - tps[j]],
   thr |-> [j \in 1..Len(idx) |-> ss[idx[j]]]]

ClfAt(ys, ss, idx) ==
  ClfRecord(idx, [j \in 1..Len(idx) |-> SumSeq(SubSeq(ys, 1, idx[j]))], ss)

ClfCounts(ys, ss) ==
  ClfAt(ys, ss, SelectSeq([k \in 1..Len(ss) |-> k],
                          LAMBDA k : k = Len(ss) \/ ss[k] # ss[k + 1]))

ClfSorted(y, s, pos, order) ==
  ClfCounts([k \in 1..Len(order) |-> IF y[order[k]] = pos THEN 1 ELSE 0],
            [k \in 1..Len(order) |-> s[order[k]]])

binary_clf_curve(y, s, pos) == ClfSorted(y, s, pos, DescOrder(s))

\* pos_label=None stands for 1 when the labels are 0/1
PosLabel(pl) == IF pl = {} THEN 1 ELSE CHOOSE x \in pl : TRUE

\* roc_curve's drop_intermediate: keep the end points and the corners
Corners(fps, tps) ==
  SelectSeq([k \in 1..Len(fps) |-> k],
            LAMBDA k : \/ k = 1
                       \/ k = Len(fps)
                       \/ fps[k + 1] - 2 * fps[k] + fps[k - 1] # 0
                       \/ tps[k + 1] - 2 * tps[k] + tps[k - 1] # 0)

\* roc_curve(y, s, pos_label): the counts of the curve's points, a (0, 0) point
\* first; fpr = fps / neg and tpr = tps / pos (NaN when the divisor is 0).
RocPoints(fps, tps) ==
  [fps |-> fps, tps |-> tps, neg |-> fps[Len(fps)], pos |-> tps[Len(tps)]]

RocKeep(c, keep) ==
  RocPoints(<<0>> \o [j \in 1..Len(keep) |-> c.fps[keep[j]]],
            <<0>> \o [j \in 1..Len(keep) |-> c.tps[keep[j]]])

RocFromClf(c) ==
  RocKeep(c, IF Len(c.fps) > 2 THEN Corners(c.fps, c.tps)
             ELSE [k \in 1..Len(c.fps) |-> k])

roc_curve(y, s, pl) == RocFromClf(binary_clf_curve(y, s, PosLabel(pl)))

Fpr(curve) == [j \in 1..Len(curve.fps) |->
                 IF curve.neg = 0 THEN NaN ELSE Frac(curve.fps[j], curve.neg)]
Tpr(curve) == [j \in 1..Len(curve.tps) |->
                 IF curve.pos = 0 THEN NaN ELSE Frac(curve.tps[j], curve.pos)]

\* auc(fpr, tpr): the trapezoidal rule
auc(curve) ==
  IF curve.neg = 0 \/ curve.pos = 0 THEN NaN
  ELSE Frac(SumSeq([j \in 1..Len(curve.fps) - 1 |->
                      (curve.fps[j + 1] - curve.fps[j])
                        * (curve.tps[j + 1] + curve.tps[j])]),
            2 * curve.neg * curve.pos)

\* np.average of fractions; NaN if any is NaN
MeanOver(fs, D) ==
  Frac(SumSeq([j \in 1..Len(fs) |-> fs[j].num * (D \div fs[j].den)]), D * Len(fs))

Mean(fs) ==
  IF \E j \in 1..Len(fs) : IsNaN(fs[j]) THEN NaN
  ELSE MeanOver(fs, ProdSeq([j \in 1..Len(fs) |-> fs[j].den]))

\* _binary_roc_auc_score: a column holding a single class has no AUC; older
\* releases of the library raise ValueError there, newer ones warn and give NaN.
binary_roc_auc_score(y, s, lib) ==
  IF Cardinality(Range(y)) # 2
    THEN [err |-> lib = "legacy", val |-> NaN]
    ELSE [err |-> FALSE, val |-> auc(roc_curve(y, s, {}))]

PerClassAuc(Y, S, lib) ==
  [c \in 1..NCols(S) |-> binary_roc_auc_score(Column(Y, c), Column(S, c), lib)]

MacroOf(per) ==
  IF \E c \in 1..Len(per) : per[c].err
    THEN [err |-> TRUE, val |-> NaN]
    ELSE [err |-> FALSE, val |-> Mean([c \in 1..Len(per) |-> per[c].val])]

\* roc_auc_score(Y, S, average='macro')
roc_auc_score(Y, S, lib) ==
  IF NCols(Y) = 1
    THEN \* y_true is a binary target
         IF NCols(S) > 2 \/ NRows(S) # NRows(Y) \/ NCols(S) # 1
           THEN [err |-> TRUE, val |-> NaN]
           ELSE binary_roc_auc_score(Column(Y, 1), Column(S, 1), lib)
    ELSE \* y_true is a multilabel indicator: one score per column, averaged
         IF NRows(S) # NRows(Y) \/ NCols(S) > NCols(Y)
           THEN [err |-> TRUE, val |-> NaN]
           ELSE MacroOf(PerClassAuc(Y, S, lib))

\* line 114: the curve drawn as "macro"
MacroCurveOwnPosLabel(yt, ys) == roc_curve(yt, ys, {0})
MacroCurve(yt, ys) == roc_curve(yt, ys, {1})

\* calculate_and_plot_roc_curve(y_true, y_pred_probs, n_classes)
\*   lines 109-110, then 113, then 114
RocScored(R, yt, ys, micro, score) ==
  IF score.err
    THEN [R EXCEPT !.micro = micro, !.aucMicro = auc(micro),
                   !.computed = <<"roc_curve", "auc">>,
                   !.error = "ValueError"]
    ELSE [R EXCEPT !.micro = micro, !.aucMicro = auc(micro),
                   !.aucMacro = score.val,
                   !.macro = MacroCurve(yt, ys),
                   !.computed = <<"roc_curve", "auc", "roc_auc_score", "roc_curve">>]

RocRavelled(R, c, lib, Y, yt, ys) ==
  IF Len(yt) # Len(ys)
    THEN [R EXCEPT !.error = "ValueError"]
    ELSE RocScored(R, yt, ys, roc_curve(yt, ys, {}), roc_auc_score(Y, c.probs, lib))

RocBinarized(R, c, lib, Y) == RocRavelled(R, c, lib, Y, Ravel(Y), Ravel(c.probs))

RocCall(c, lib) ==
  RocBinarized([NoResult EXCEPT !.fn = "roc", !.lib = lib], c, lib,
               label_binarize(c.y_true, c.n_classes))

\* precision_recall_curve(y, s): returned in order of increasing threshold,
\* with a closing point (precision 1, recall 0).  With no positive label the
\* recall is 0/0 = NaN in older releases and is set to 1 in newer ones.
Precision(c) == [j \in 1..Len(c.tps) |-> Frac(c.tps[j], c.tps[j] + c.fps[j])]
Recall(c, P, lib) ==
  [j \in 1..Len(c.tps) |->
     IF P = 0 THEN (IF lib = "legacy" THEN NaN ELSE Frac(1, 1))
     ELSE Frac(c.tps[j], P)]

PRPointsUnreversed(c, P, lib) ==
  [prec |-> Precision(c) \o <<Frac(1, 1)>>,
   rec |-> Recall(c, P, lib) \o <<Frac(0, IF P = 0 THEN 1 ELSE P)>>,
   thr |-> c.thr]

PRPoints(c, P, lib) ==
  [prec |-> Reverse(Precision(c)) \o <<Frac(1, 1)>>,
   rec |-> Reverse(Recall(c, P, lib)) \o <<Frac(0, IF P = 0 THEN 1 ELSE P)>>,
   thr |-> Reverse(c.thr)]

PRFromClf(c, lib) == PRPoints(c, c.tps[Len(c.tps)], lib)

precision_recall_curve(y, s, lib) == PRFromClf(binary_clf_curve(y, s, 1), lib)

\* average_precision_score on one column: -sum(diff(recall) * precision[:-1])
APSum(pr, D) ==
  Frac(SumSeq([j \in 1..Len(pr.rec) - 1 |->
                 (pr.rec[j].num - pr.rec[j + 1].num)
                   * pr.prec[j].num * (D \div pr.prec[j].den)]),
       D * pr.rec[1].den)

APFromCurve(pr) ==
  IF \E j \in 1..Len(pr.rec) : IsNaN(pr.rec[j]) THEN NaN
  ELSE APSum(pr, ProdSeq([j \in 1..Len(pr.rec) - 1 |-> pr.prec[j].den]))

average_precision(y, s, lib) == APFromCurve(precision_recall_curve(y, s, lib))

\* average_precision_score(Y, S, average="macro")
average_precision_macro(Y, S, lib) ==
  Mean([c \in 1..NCols(Y) |-> average_precision(Column(Y, c), Column(S, c), lib)])

\* The classes whose curve the loop of lines 144-146 computes before it stops:
\* a column one of the matrices lacks is an IndexError, columns of different
\* lengths are a ValueError.
LoopReach(Y, S, C) ==
  IF NRows(Y) # NRows(S) THEN 0 ELSE Min2(C, Min2(NCols(Y), NCols(S)))

PerClassPR(Y, S, m, lib) ==
  [i \in 1..m |->
     [curve |-> precision_recall_curve(Column(Y, i), Column(S, i), lib),
      ap |-> average_precision(Column(Y, i), Column(S, i), lib)]]

LoopComputed(m) ==
  [k \in 1..2 * m |-> IF k % 2 = 1 THEN "precision_recall_curve"
                      ELSE "average_precision_score"]

\* calculate_and_plot_precision_recall_curve(y_true, y_pred_probs, n_classes)
\*   lines 144-146 (R holds their results), then 148, then 149
PRMacro(R, Y, S, lib) ==
  IF Len(Ravel(Y)) # Len(Ravel(S))
    THEN [R EXCEPT !.error = "ValueError"]
    ELSE [R EXCEPT !.prMacro = precision_recall_curve(Ravel(Y), Ravel(S), lib),
                   !.apMacro = average_precision_macro(Y, S, lib),
                   !.computed = @ \o <<"precision_recall_curve",
                                       "average_precision_score">>]

PRLoop(R, c, Y, S, m, lib) ==
  IF m < c.n_classes
    THEN [R EXCEPT !.perClass = PerClassPR(Y, S, m, lib),
                   !.computed = LoopComputed(m),
                   !.error = IF NRows(Y) # NRows(S) THEN "ValueError"
                             ELSE "IndexError"]
    ELSE PRMacro([R EXCEPT !.perClass = PerClassPR(Y, S, m, lib),
                           !.computed = LoopComputed(m)],
                 Y, S, lib)

PRBinarized(R, c, Y, lib) ==
  PRLoop(R, c, Y, c.probs, LoopReach(Y, c.probs, c.n_classes), lib)

PRCall(c, lib) ==
  PRBinarized([NoResult EXCEPT !.fn = "pr", !.lib = lib], c,
              label_binarize(c.y_true, c.n_classes), lib)

(***************************************************************************)
(* The calls of Part II.                                                   *)
(***************************************************************************)
\* rows of a probability matrix: k scores that sum to 1
ProbRows(k) == {r \in [1..k -> 0..ScoreUnit] : SumSeq(r) = ScoreUnit}

\* a matrix of the given shape, for the calls whose shapes disagree
SomeProbs(n, k) ==
  [i \in 1..n |-> [c \in 1..k |-> IF c = ((i - 1) % k) + 1 THEN ScoreUnit ELSE 0]]

Shapes == {sh \in (1..MaxSamples) \X (1..MaxClasses) : sh[1] * sh[2] <= MaxCells}

ShapesAgree(c) ==
  /\ NRows(c.probs) = Len(c.y_true)
  /\ NCols(c.probs) = c.n_classes

IdlePipe ==
  /\ dataframe = <<>>
  /\ batch_size = 1
  /\ built = FALSE
  /\ trav = 0
  /\ status = "none"
  /\ parallelism = 1
  /\ depth = 1
  /\ nextDispatch = 0
  /\ slot = <<>>
  /\ taken = 0
  /\ partial = <<>>
  /\ buffer = <<>>
  /\ ended = FALSE
  /\ yielded = <<>>
  /\ loads = 0
  /\ finished = {}
  /\ history = <<>>

InitCurve ==
  /\ IdlePipe
  /\ result = NoResult
  /\ \E sh \in Shapes :
       \E y \in [1..sh[1] -> 0..sh[2] - 1] :
         \/ \E P \in [1..sh[1] -> ProbRows(sh[2])] :
              call = [y_true |-> y, probs |-> P, n_classes |-> sh[2]]
         \/ \E ps \in Shapes \ {sh} :
              call = [y_true |-> y, probs |-> SomeProbs(ps[1], ps[2]),
                      n_classes |-> sh[2]]

CalculateRoc ==
  /\ result.fn = "none"
  /\ \E lib \in {"legacy", "current"} : result' = RocCall(call, lib)
  /\ UNCHANGED <<call, pipeVars>>

CalculatePR ==
  /\ result.fn = "none"
  /\ \E lib \in {"legacy", "current"} : result' = PRCall(call, lib)
  /\ UNCHANGED <<call, pipeVars>>

NextCurve ==
  \/ CalculateRoc
  \/ CalculatePR

SpecCurve == InitCurve /\ [][NextCurve]_vars

(***************************************************************************)
(* Properties of the metric computations.                                  *)
(***************************************************************************)
Called(f) == result.fn = f
Succeeded == result.error = "none"

\* some class of 0..n_classes-1 does not occur in y_true
SomeClassAbsent(c) == \E k \in 0..c.n_classes - 1 : k \notin Range(c.y_true)

PerfectCall ==
  [y_true |-> <<0, 1, 1, 0>>,
   probs |-> <<<<ScoreUnit, 0>>, <<0, ScoreUnit>>, <<0, ScoreUnit>>, <<ScoreUnit, 0>>>>,
   n_classes |-> 2]

\* C5: for y_true = [0,1,1,0], n_classes = 2 and the one-hot probabilities of
\* y_true, the ROC computation completes and its micro-average AUC is 1.
C5_PerfectSeparationMicroAucIsOne ==
  (Called("roc") /\ call = PerfectCall) =>
    /\ Succeeded
    /\ ~IsNaN(result.aucMicro)
    /\ FracEq(result.aucMicro, Frac(1, 1))

\* C6: when the shapes of y_true, y_pred_probs and n_classes disagree, the call
\* fails, and fails before any curve or score has been computed.
C6_ShapeMismatchFailsFast ==
  (~Called("none") /\ ~ShapesAgree(call)) =>
    /\ ~Succeeded
    /\ result.computed = <<>>

\* C7: when some class has no positive example in y_true (shapes agreeing),
\* neither call ends in a failure.
C7_AbsentClassDoesNotFail ==
  (~Called("none") /\ ShapesAgree(call) /\ SomeClassAbsent(call)) => Succeeded

\* The area under a ROC curve as the rank statistic it equals: the share of
\* (positive, negative) pairs the scores order correctly, ties counting half.
PairAuc(y, s) ==
  LET pos == {i \in 1..Len(y) : y[i] = 1}
      neg == {i \in 1..Len(y) : y[i] = 0}
  IN IF pos = {} \/ neg = {} THEN NaN
     ELSE Frac(2 * Cardinality({pr \in pos \X neg : s[pr[1]] > s[pr[2]]})
                 + Cardinality({pr \in pos \X neg : s[pr[1]] = s[pr[2]]}),
               2 * Cardinality(pos) * Cardinality(neg))

SameNumber(x, y) == IF IsNaN(x) \/ IsNaN(y) THEN IsNaN(x) /\ IsNaN(y) ELSE FracEq(x, y)

\* C8: whenever the ROC call on agreeing shapes completes, the "macro" curve
\* has exactly the micro curve's fpr and tpr sequences; the micro AUC is the
\* area of that curve over the flattened pair; and the macro AUC is the
\* equally weighted mean of the per-column AUCs (NaN if one is undefined),
\* which is not the area of the curve drawn with it.
C8_MacroCurveIsMicroCurve ==
  (Called("roc") /\ Succeeded /\ ShapesAgree(call)) =>
    LET Y == label_binarize(call.y_true, call.n_classes) IN
    /\ Fpr(result.macro) = Fpr(result.micro)
    /\ Tpr(result.macro) = Tpr(result.micro)
    /\ Len(Fpr(result.micro)) >= 2
    /\ SameNumber(result.aucMicro, PairAuc(Ravel(Y), Ravel(call.probs)))
    /\ SameNumber(result.aucMacro,
                  Mean([c \in 1..NCols(Y) |->
                          PairAuc(Column(Y, c), Column(call.probs, c))]))

C8_Witness ==
  /\ Called("roc") /\ Succeeded /\ ShapesAgree(call)
  /\ ~IsNaN(result.aucMacro) /\ ~IsNaN(result.aucMicro)
  /\ ~FracEq(result.aucMacro, result.aucMicro)
  /\ Fpr(result.macro) = Fpr(result.micro)
  /\ Tpr(result.macro) = Tpr(result.micro)

\* The curves a precision-recall call has computed, and a curve's sequences
\* along the sweep from the highest threshold to the lowest.
CurvesComputed ==
  {result.perClass[i].curve : i \in 1..Len(result.perClass)}
    \cup (IF result.prMacro = NoPR THEN {} ELSE {result.prMacro})

Sweep(q) == Reverse(q)
Defined(q) == \A j \in 1..Len(q) : ~IsNaN(q[j])
NonDecreasing(q) == \A j \in 1..Len(q) - 1 : FracLeq(q[j], q[j + 1])
NonIncreasing(q) == \A j \in 1..Len(q) - 1 : FracLeq(q[j + 1], q[j])

\* C9 as claimed: on every valid input, each precision-recall curve (with a
\* defined recall) has, from the highest threshold to the lowest,
\* non-increasing precision and non-decreasing recall.
C9_PrecisionAndRecallMonotone ==
  (Called("pr") /\ ShapesAgree(call)) =>
    \A cv \in CurvesComputed :
      Defined(cv.rec) =>
        /\ NonIncreasing(Sweep(cv.prec))
        /\ NonDecreasing(Sweep(cv.rec))

\* C9 as amended: each precision-recall curve computed has, from the highest
\* threshold to the lowest, a non-decreasing recall wherever recall is defined
\* (it is NaN only for a column without positives in older library releases),
\* it starts at recall 0 and precision 1, and every threshold has a point.
C9_RecallMonotone ==
  Called("pr") =>
    \A cv \in CurvesComputed :
      /\ Len(cv.rec) = Len(cv.thr) + 1
      /\ Len(cv.prec) = Len(cv.rec)
      /\ Sweep(cv.prec)[1] = Frac(1, 1)
      /\ Sweep(cv.rec)[1].num = 0
      /\ \A j \in 1..Len(cv.thr) - 1 : cv.thr[j] < cv.thr[j + 1]
      /\ (Defined(cv.rec) => NonDecreasing(Sweep(cv.rec)))

C9_Witness ==
  /\ Called("pr") /\ Succeeded /\ ShapesAgree(call)
  /\ \E cv \in CurvesComputed :
       /\ Defined(cv.rec)
       /\ Len(cv.thr) >= 2
       /\ ~NonIncreasing(Sweep(cv.prec))
       /\ NonDecreasing(Sweep(cv.rec))

====
